---- MODULE Spec2Model ----
(***************************************************************************)
(* BadgerDB buffer manager (src/BufMgr/src/buffer.cpp): frame descriptor   *)
(* table, page pool, (file, page) -> frame hash index and the clock        *)
(* replacement policy, with the public operations readPage, allocPage,     *)
(* unPinPage, flushFile and disposePage.  The manager is single threaded:  *)
(* every public call is one atomic action.  A call is computed by an       *)
(* operator over a record of the manager's state; the record also lists,   *)
(* in program order, the calls the handler made on its collaborators       *)
(* (File, hash table, descriptors).  A Page is represented by its page     *)
(* number: the manager never looks at the payload.                         *)
(***************************************************************************)
EXTENDS Integers, Sequences, FiniteSets, TLC

\* ------------------------------------------------------------------ bounds
NumBufs == 2      \* bufs argument of the constructor
NumFiles == 2     \* File objects the callers use
MaxPage == 2      \* page numbers a File hands out are 1..MaxPage
MaxPin == 2       \* callers hold at most MaxPin pins on one page
MaxCalls == 2     \* calls of one kind the watcher counts before it stops

\* ------------------------------------------------------- program constants
NULL == 0             \* the null File pointer of a cleared descriptor
INVALID_NUMBER == 0   \* Page::INVALID_NUMBER, page number of an unused Page

Frames == 0 .. (NumBufs - 1)
Files == 1 .. NumFiles
PageIds == 1 .. MaxPage

VARIABLES
  bufDescTable,   \* frame -> BufDesc
  bufPool,        \* frame -> Page
  hashTable,      \* set of entries (file, pageNo, frameNo)
  clockHand,      \* the clock hand
  disk,           \* file -> the page numbers allocated in the file
  lastCall,       \* summary of the public call that produced this state
  watch           \* history: the calls on WatchedKey since the watch began

vars == <<bufDescTable, bufPool, hashTable, clockHand, disk, lastCall, watch>>

\* ------------------------------------------------------------- BufDesc
\* BufDesc::Clear(): back to the initial state; frameNo is kept.
Clear(d) ==
  [d EXCEPT !.file = NULL, !.pageNo = INVALID_NUMBER, !.pinCnt = 0,
            !.dirty = FALSE, !.valid = FALSE, !.refbit = FALSE]

\* BufDesc::Set(file, pageNo)
Set(d, file, pageNo) ==
  [d EXCEPT !.file = file, !.pageNo = pageNo, !.pinCnt = 1,
            !.dirty = FALSE, !.valid = TRUE, !.refbit = TRUE]

\* BufDesc::BufDesc(): a cleared descriptor
NewBufDesc ==
  [frameNo |-> 0, file |-> NULL, pageNo |-> INVALID_NUMBER, pinCnt |-> 0,
   dirty |-> FALSE, valid |-> FALSE, refbit |-> FALSE]

\* Page::Page(): an unused page
NewPage == INVALID_NUMBER

\* ---------------------------------------------------------------- events
Event(op, file, pageNo, frame) ==
  [op |-> op, file |-> file, pageNo |-> pageNo, frame |-> frame]

Log(s, e) == [s EXCEPT !.ev = Append(@, e)]

Throw(s, e) == [s EXCEPT !.exc = e]

\* ------------------------------------------------------------ BufHashTbl
hashPresent(h, file, pageNo) ==
  \E e \in h : e.file = file /\ e.pageNo = pageNo

\* BufHashTbl::lookup: the frame of the entry.  The callers test hashPresent
\* first: on an absent key lookup raises HashNotFoundException.
hashLookup(h, file, pageNo) ==
  (CHOOSE e \in h : e.file = file /\ e.pageNo = pageNo).frameNo

\* BufHashTbl::insert
hashInsert(s, file, pageNo, frame) ==
  Log([s EXCEPT !.hash = @ \cup {[file |-> file, pageNo |-> pageNo, frameNo |-> frame]}],
      Event("hashInsert", file, pageNo, frame))

\* BufHashTbl::remove
hashRemove(s, file, pageNo) ==
  Log([s EXCEPT !.hash = {e \in @ : ~(e.file = file /\ e.pageNo = pageNo)}],
      Event("hashRemove", file, pageNo, -1))

\* ------------------------------------------------------------------ File
\* File::writePage(page)
fileWritePage(s, file, page) ==
  Log(s, Event("writePage", file, page, -1))

\* File::readPage(pageNo): fails when the file has no such page
fileReadPage(s, file, pageNo) ==
  LET r == Log(s, Event("readPage", file, pageNo, -1)) IN
  IF pageNo \in s.disk[file] THEN r ELSE Throw(r, "InvalidPage")

\* File::allocatePage(): pageNo is a number the file does not use
fileAllocatePage(s, file, pageNo) ==
  Log([s EXCEPT !.disk[file] = @ \cup {pageNo}],
      Event("allocatePage", file, pageNo, -1))

\* File::deletePage(pageNo)
fileDeletePage(s, file, pageNo) ==
  Log([s EXCEPT !.disk[file] = @ \ {pageNo}],
      Event("deletePage", file, pageNo, -1))

\* ------------------------------------------------------------- BufMgr
\* The manager at the start of a call.
Cur ==
  [tbl |-> bufDescTable, pool |-> bufPool, hash |-> hashTable,
   hand |-> clockHand, disk |-> disk, ev |-> <<>>, adv |-> 0,
   exc |-> "none", frame |-> -1]

\* bufDescTable[i].Clear()
clearFrame(s, i) ==
  Log([s EXCEPT !.tbl[i] = Clear(@)], Event("Clear", NULL, INVALID_NUMBER, i))

\* bufDescTable[i].Set(file, pageNo)
setFrame(s, i, file, pageNo) ==
  Log([s EXCEPT !.tbl[i] = Set(@, file, pageNo)], Event("Set", file, pageNo, i))

\* bufPool[i] = page
storePage(s, i, page) ==
  Log([s EXCEPT !.pool[i] = page], Event("store", NULL, page, i))

\* BufMgr::advanceClock
advanceClock(s) ==
  [s EXCEPT !.hand = (@ + 1) % NumBufs, !.adv = @ + 1]

\* evictVictim with the write-back after the removal of the hash entry
evictVictim_WritesAfterRemove(s) ==
  LET d == s.tbl[s.hand]
      h == hashRemove(s, d.file, d.pageNo)
  IN IF d.dirty
     THEN [fileWritePage(h, d.file, s.pool[s.hand]) EXCEPT !.tbl[s.hand].dirty = FALSE]
     ELSE h

\* allocBuf, lines 110-118: write the victim back if dirty, drop its entry
evictVictim(s) ==
  LET d == s.tbl[s.hand]
      w == IF d.dirty
           THEN [fileWritePage(s, d.file, s.pool[s.hand])
                   EXCEPT !.tbl[s.hand].dirty = FALSE]
           ELSE s
  IN hashRemove(w, d.file, d.pageNo)

\* allocBufLoop without the test of pinCnt
RECURSIVE allocBufLoop_IgnoresPins(_, _)
allocBufLoop_IgnoresPins(s, pinned) ==
  LET d == s.tbl[s.hand] IN
  IF ~d.valid THEN s
  ELSE IF d.refbit
    THEN allocBufLoop_IgnoresPins(
           advanceClock([s EXCEPT !.tbl[s.hand].refbit = FALSE]), pinned)
  ELSE LET w == IF d.dirty
                THEN [fileWritePage(s, d.file, s.pool[s.hand])
                        EXCEPT !.tbl[s.hand].dirty = FALSE]
                ELSE s
       IN hashRemove(w, d.file, d.pageNo)

\* allocBufLoop that throws one pinned frame too late
RECURSIVE allocBufLoop_LateThrow(_, _)
allocBufLoop_LateThrow(s, pinned) ==
  LET d == s.tbl[s.hand] IN
  IF ~d.valid THEN s
  ELSE IF d.refbit
    THEN allocBufLoop_LateThrow(
           advanceClock([s EXCEPT !.tbl[s.hand].refbit = FALSE]), pinned)
  ELSE IF d.pinCnt # 0
    THEN IF pinned + 1 > NumBufs + 1
         THEN Throw(s, "BufferExceeded")
         ELSE allocBufLoop_LateThrow(advanceClock(s), pinned + 1)
  ELSE evictVictim(s)

\* allocBuf, lines 87-120: the while loop
RECURSIVE allocBufLoop(_, _)
allocBufLoop(s, pinned) ==
  LET d == s.tbl[s.hand] IN
  IF ~d.valid THEN s
  ELSE IF d.refbit
    THEN allocBufLoop(advanceClock([s EXCEPT !.tbl[s.hand].refbit = FALSE]), pinned)
  ELSE IF d.pinCnt # 0
    THEN IF pinned + 1 = NumBufs
         THEN Throw(s, "BufferExceeded")
         ELSE allocBufLoop(advanceClock(s), pinned + 1)
  ELSE evictVictim(s)

\* allocBuf that starts the scan at the clock hand, without advancing it
allocBuf_StartsAtHand(s) ==
  LET r == allocBufLoop(s, 0) IN
  IF r.exc # "none" THEN r
  ELSE [clearFrame(r, r.hand) EXCEPT !.frame = r.hand]

\* BufMgr::allocBuf
allocBuf(s) ==
  LET r == allocBufLoop(advanceClock(s), 0) IN
  IF r.exc # "none" THEN r
  ELSE [clearFrame(r, r.hand) EXCEPT !.frame = r.hand]

\* readPage that reads the page from the file before it asks for a frame
readPageCall_ReadsFirst(s, file, pageNo) ==
  IF hashPresent(s.hash, file, pageNo)
  THEN LET f == hashLookup(s.hash, file, pageNo) IN
       [s EXCEPT !.tbl[f].refbit = TRUE, !.tbl[f].pinCnt = @ + 1, !.frame = f]
  ELSE LET r == fileReadPage(s, file, pageNo) IN
       IF r.exc # "none" THEN r
       ELSE LET a == allocBuf(r) IN
            IF a.exc # "none" THEN a
            ELSE setFrame(hashInsert(storePage(a, a.frame, pageNo),
                                     file, pageNo, a.frame),
                          a.frame, file, pageNo)

\* readPage whose hit sets the pin count to 1 instead of incrementing it
readPageCall_HitPinsOnce(s, file, pageNo) ==
  IF hashPresent(s.hash, file, pageNo)
  THEN LET f == hashLookup(s.hash, file, pageNo) IN
       [s EXCEPT !.tbl[f].refbit = TRUE, !.tbl[f].pinCnt = 1, !.frame = f]
  ELSE LET a == allocBuf(s) IN
       IF a.exc # "none" THEN a
       ELSE LET r == fileReadPage(a, file, pageNo) IN
            IF r.exc # "none" THEN r
            ELSE setFrame(hashInsert(storePage(r, a.frame, pageNo),
                                     file, pageNo, a.frame),
                          a.frame, file, pageNo)

\* readPage whose hit pins the page and leaves the ref bit as it is
readPageCall_HitKeepsRefbit(s, file, pageNo) ==
  IF hashPresent(s.hash, file, pageNo)
  THEN LET f == hashLookup(s.hash, file, pageNo) IN
       [s EXCEPT !.tbl[f].pinCnt = @ + 1, !.frame = f]
  ELSE LET a == allocBuf(s) IN
       IF a.exc # "none" THEN a
       ELSE LET r == fileReadPage(a, file, pageNo) IN
            IF r.exc # "none" THEN r
            ELSE setFrame(hashInsert(storePage(r, a.frame, pageNo),
                                     file, pageNo, a.frame),
                          a.frame, file, pageNo)

\* readPage that enters the page in the hash table and the descriptor before
\* it reads it from the file
readPageCall_InsertsBeforeRead(s, file, pageNo) ==
  IF hashPresent(s.hash, file, pageNo)
  THEN LET f == hashLookup(s.hash, file, pageNo) IN
       [s EXCEPT !.tbl[f].refbit = TRUE, !.tbl[f].pinCnt = @ + 1, !.frame = f]
  ELSE LET a == allocBuf(s) IN
       IF a.exc # "none" THEN a
       ELSE LET i == setFrame(hashInsert(a, file, pageNo, a.frame),
                              a.frame, file, pageNo)
                r == fileReadPage(i, file, pageNo)
            IN IF r.exc # "none" THEN r ELSE storePage(r, a.frame, pageNo)

\* BufMgr::readPage
readPageCall(s, file, pageNo) ==
  IF hashPresent(s.hash, file, pageNo)
  THEN LET f == hashLookup(s.hash, file, pageNo) IN
       [s EXCEPT !.tbl[f].refbit = TRUE, !.tbl[f].pinCnt = @ + 1, !.frame = f]
  ELSE LET a == allocBuf(s) IN
       IF a.exc # "none" THEN a
       ELSE LET r == fileReadPage(a, file, pageNo) IN
            IF r.exc # "none" THEN r
            ELSE setFrame(hashInsert(storePage(r, a.frame, pageNo),
                                     file, pageNo, a.frame),
                          a.frame, file, pageNo)

\* unPinPage that stores the dirty flag instead of setting the bit
unPinPageCall_StoresFlag(s, file, pageNo, dirty) ==
  IF ~hashPresent(s.hash, file, pageNo) THEN s
  ELSE LET f == hashLookup(s.hash, file, pageNo) IN
       IF s.tbl[f].pinCnt = 0
       THEN Throw([s EXCEPT !.frame = f], "PageNotPinned")
       ELSE [s EXCEPT !.tbl[f].pinCnt = @ - 1, !.tbl[f].dirty = dirty, !.frame = f]

\* unPinPage without the test of pinCnt
unPinPageCall_NoPinCheck(s, file, pageNo, dirty) ==
  IF ~hashPresent(s.hash, file, pageNo) THEN s
  ELSE LET f == hashLookup(s.hash, file, pageNo) IN
       [s EXCEPT !.tbl[f].pinCnt = @ - 1,
                 !.tbl[f].dirty = IF dirty THEN TRUE ELSE @,
                 !.frame = f]

\* unPinPage that sets the dirty bit before it tests pinCnt
unPinPageCall_DirtyBeforeCheck(s, file, pageNo, dirty) ==
  IF ~hashPresent(s.hash, file, pageNo) THEN s
  ELSE LET f == hashLookup(s.hash, file, pageNo)
           m == [s EXCEPT !.tbl[f].dirty = IF dirty THEN TRUE ELSE @, !.frame = f]
       IN IF s.tbl[f].pinCnt = 0
          THEN Throw(m, "PageNotPinned")
          ELSE [m EXCEPT !.tbl[f].pinCnt = @ - 1]

\* BufMgr::unPinPage
unPinPageCall(s, file, pageNo, dirty) ==
  IF ~hashPresent(s.hash, file, pageNo) THEN s
  ELSE LET f == hashLookup(s.hash, file, pageNo) IN
       IF s.tbl[f].pinCnt = 0
       THEN Throw([s EXCEPT !.frame = f], "PageNotPinned")
       ELSE [s EXCEPT !.tbl[f].pinCnt = @ - 1,
                      !.tbl[f].dirty = IF dirty THEN TRUE ELSE @,
                      !.frame = f]

\* flushFrame that writes a dirty page back and leaves the frame as it is
flushFrame_WritesOnly(s, file, i) ==
  LET d == s.tbl[i] IN
  IF d.file # file THEN s
  ELSE IF d.pinCnt # 0 THEN Throw([s EXCEPT !.frame = i], "PagePinned")
  ELSE IF ~d.valid THEN Throw([s EXCEPT !.frame = i], "BadBuffer")
  ELSE IF d.dirty THEN fileWritePage(s, d.file, s.pool[i]) ELSE s

\* flushFrame without the comparison of the frame's file
flushFrame_AnyFile(s, file, i) ==
  LET d == s.tbl[i] IN
  IF ~d.valid THEN s
  ELSE IF d.pinCnt # 0 THEN Throw([s EXCEPT !.frame = i], "PagePinned")
  ELSE LET w == IF d.dirty
                THEN [fileWritePage(s, d.file, s.pool[i]) EXCEPT !.tbl[i].dirty = FALSE]
                ELSE s
       IN clearFrame(hashRemove(w, d.file, d.pageNo), i)

\* flushFrame that passes over a pinned frame
flushFrame_SkipsPinned(s, file, i) ==
  LET d == s.tbl[i] IN
  IF d.file # file \/ d.pinCnt # 0 THEN s
  ELSE IF ~d.valid THEN Throw([s EXCEPT !.frame = i], "BadBuffer")
  ELSE LET w == IF d.dirty
                THEN [fileWritePage(s, d.file, s.pool[i]) EXCEPT !.tbl[i].dirty = FALSE]
                ELSE s
       IN clearFrame(hashRemove(w, file, d.pageNo), i)

\* flushFile, lines 192-217: the body of the scan, for frame i
flushFrame(s, file, i) ==
  LET d == s.tbl[i] IN
  IF d.file # file THEN s
  ELSE IF d.pinCnt # 0 THEN Throw([s EXCEPT !.frame = i], "PagePinned")
  ELSE IF ~d.valid THEN Throw([s EXCEPT !.frame = i], "BadBuffer")
  ELSE LET w == IF d.dirty
                THEN [fileWritePage(s, d.file, s.pool[i]) EXCEPT !.tbl[i].dirty = FALSE]
                ELSE s
       IN clearFrame(hashRemove(w, file, d.pageNo), i)

\* flushFile, lines 189-218: the scan from frame i on
RECURSIVE flushFrom(_, _, _)
flushFrom(s, file, i) ==
  IF i >= NumBufs THEN s
  ELSE LET r == flushFrame(s, file, i) IN
       IF r.exc # "none" THEN r ELSE flushFrom(r, file, i + 1)

\* BufMgr::flushFile
flushFileCall(s, file) == flushFrom(s, file, 0)

\* BufMgr::allocPage; pageNo is the number File::allocatePage hands out
allocPageCall(s, file, pageNo) ==
  LET n == fileAllocatePage(s, file, pageNo)
      a == allocBuf(n)
  IN IF a.exc # "none" THEN a
     ELSE setFrame(hashInsert(storePage(a, a.frame, pageNo), file, pageNo, a.frame),
                   a.frame, file, pageNo)

\* disposePage that clears the frame and leaves the hash entry
disposePageCall_KeepsEntry(s, file, pageNo) ==
  LET r == IF hashPresent(s.hash, file, pageNo)
           THEN LET f == hashLookup(s.hash, file, pageNo) IN
                [clearFrame(s, f) EXCEPT !.frame = f]
           ELSE s
  IN fileDeletePage(r, file, pageNo)

\* disposePage that deletes the page from the file first
disposePageCall_DeletesFirst(s, file, pageNo) ==
  LET r == fileDeletePage(s, file, pageNo) IN
  IF hashPresent(r.hash, file, pageNo)
  THEN LET f == hashLookup(r.hash, file, pageNo) IN
       [clearFrame(hashRemove(r, file, pageNo), f) EXCEPT !.frame = f]
  ELSE r

\* disposePage that marks the frame invalid instead of clearing it
disposePageCall_OnlyInvalidates(s, file, pageNo) ==
  LET r == IF hashPresent(s.hash, file, pageNo)
           THEN LET f == hashLookup(s.hash, file, pageNo) IN
                [hashRemove(s, file, pageNo) EXCEPT
                   !.tbl[f].valid = FALSE, !.tbl[f].pinCnt = 0,
                   !.tbl[f].dirty = FALSE, !.frame = f]
           ELSE s
  IN fileDeletePage(r, file, pageNo)

\* BufMgr::disposePage
disposePageCall(s, file, pageNo) ==
  LET r == IF hashPresent(s.hash, file, pageNo)
           THEN LET f == hashLookup(s.hash, file, pageNo) IN
                [clearFrame(hashRemove(s, file, pageNo), f) EXCEPT !.frame = f]
           ELSE s
  IN fileDeletePage(r, file, pageNo)

\* ------------------------------------------------------------ the calls
HasEvent(ev, op) == \E k \in 1 .. Len(ev) : ev[k].op = op

\* What a state remembers of the call that produced it: the operation, the
\* exception it raised, and whether it dropped a hash entry or wrote a page.
Summary(op, r) ==
  [op |-> op, exc |-> r.exc, evicted |-> HasEvent(r.ev, "hashRemove"),
   wrote |-> HasEvent(r.ev, "writePage")]

\* The pin count of a page: that of its frame, 0 when it is not resident.
PinOf(tbl, h, file, pageNo) ==
  IF hashPresent(h, file, pageNo) THEN tbl[hashLookup(h, file, pageNo)].pinCnt ELSE 0

\* The page the watcher follows.  Files and page numbers are interchangeable
\* in the manager, so one page stands for every page.
WatchedKey == <<1, 1>>

NotWatching == [on |-> FALSE, pin0 |-> 0, reads |-> 0, unpins |-> 0, silent |-> 0]

\* The watcher counts the readPage and unPinPage calls on WatchedKey that
\* returned without an exception (reads, unpins), and among the latter those
\* that did not find the page in the hash table (silent).  It stops at a
\* disposePage or allocPage of the page and when a count passes MaxCalls.
Observe(w, op, file, pageNo, r) ==
  IF ~w.on \/ <<file, pageNo>> # WatchedKey \/ op = "flushFile" THEN w
  ELSE IF op \in {"disposePage", "allocPage"} THEN NotWatching
  ELSE IF r.exc # "none" THEN w
  ELSE LET n == IF op = "readPage"
                THEN [w EXCEPT !.reads = @ + 1]
                ELSE [w EXCEPT !.unpins = @ + 1,
                               !.silent = IF hashPresent(hashTable, file, pageNo)
                                          THEN @ ELSE @ + 1]
       IN IF n.reads > MaxCalls \/ n.unpins > MaxCalls THEN NotWatching ELSE n

Commit(r, op, file, pageNo) ==
  /\ watch' = Observe(watch, op, file, pageNo, r)
  /\ bufDescTable' = r.tbl
  /\ bufPool' = r.pool
  /\ hashTable' = r.hash
  /\ clockHand' = r.hand
  /\ disk' = r.disk
  /\ lastCall' = Summary(op, r)

readPage(file, pageNo) ==
  LET r == readPageCall(Cur, file, pageNo) IN
  /\ r.exc = "none" => r.tbl[r.frame].pinCnt <= MaxPin
  /\ Commit(r, "readPage", file, pageNo)

allocPage(file, pageNo) ==
  /\ pageNo \notin disk[file]
  /\ Commit(allocPageCall(Cur, file, pageNo), "allocPage", file, pageNo)

unPinPage(file, pageNo, dirty) ==
  LET r == unPinPageCall(Cur, file, pageNo, dirty) IN
  /\ Commit(r, "unPinPage", file, pageNo)

flushFile(file) ==
  LET r == flushFileCall(Cur, file) IN
  /\ Commit(r, "flushFile", file, INVALID_NUMBER)

disposePage(file, pageNo) ==
  LET r == disposePageCall(Cur, file, pageNo) IN
  /\ Commit(r, "disposePage", file, pageNo)

\* BufMgr::BufMgr; the files may already hold pages
Init ==
  /\ bufDescTable = [i \in Frames |-> [NewBufDesc EXCEPT !.frameNo = i]]
  /\ bufPool = [i \in Frames |-> NewPage]
  /\ hashTable = {}
  /\ clockHand = NumBufs - 1
  /\ disk \in [Files -> SUBSET PageIds]
  /\ lastCall = Summary("BufMgr", Cur)
  /\ watch = NotWatching

Next ==
  \/ \E file \in Files, pageNo \in PageIds : readPage(file, pageNo)
  \/ \E file \in Files, pageNo \in PageIds : allocPage(file, pageNo)
  \/ \E file \in Files, pageNo \in PageIds, dirty \in BOOLEAN :
       unPinPage(file, pageNo, dirty)
  \/ \E file \in Files : flushFile(file)
  \/ \E file \in Files, pageNo \in PageIds : disposePage(file, pageNo)

Spec == Init /\ [][Next]_vars

\* The watcher starts (or restarts) counting, from the current pin count.
startWatch ==
  /\ watch' = [NotWatching EXCEPT
                 !.on = TRUE,
                 !.pin0 = PinOf(bufDescTable, hashTable, WatchedKey[1], WatchedKey[2])]
  /\ watch' # watch
  /\ UNCHANGED <<bufDescTable, bufPool, hashTable, clockHand, disk, lastCall>>

NextWatch == Next \/ startWatch

\* The manager with a watcher of the calls on one page.
SpecWatch == Init /\ [][NextWatch]_vars
\* ================================================================ claims
Key(d) == <<d.file, d.pageNo>>

Pinned(d) == d.valid /\ d.pinCnt > 0

AllPinned == \A i \in Frames : Pinned(bufDescTable[i])

\* The frame keeps the page it holds across the step.
KeepsPage(i) ==
  /\ bufDescTable'[i].valid
  /\ Key(bufDescTable'[i]) = Key(bufDescTable[i])

\* C1: between calls, a frame is valid exactly when the hash table has an
\* entry (file, pageNo) -> that frame; every entry points to a valid frame
\* holding the entry's file and page; no two valid frames hold the same page.
C1_ValidIffIndexed ==
  /\ \A i \in Frames :
       bufDescTable[i].valid <=>
         \E e \in hashTable : /\ e.frameNo = i
                              /\ e.file = bufDescTable[i].file
                              /\ e.pageNo = bufDescTable[i].pageNo
  /\ \A e \in hashTable :
       /\ bufDescTable[e.frameNo].valid
       /\ bufDescTable[e.frameNo].file = e.file
       /\ bufDescTable[e.frameNo].pageNo = e.pageNo
  /\ \A i, j \in Frames :
       (i # j /\ bufDescTable[i].valid /\ bufDescTable[j].valid)
         => Key(bufDescTable[i]) # Key(bufDescTable[j])

\* Every frame is in use, after a call that replaced a resident page.
C1_Witness ==
  /\ lastCall.evicted /\ lastCall.exc = "none"
  /\ \A i \in Frames : bufDescTable[i].valid
  /\ Cardinality(hashTable) = NumBufs

\* C2: a frame that is valid with pinCnt > 0 holds the same (file, pageNo)
\* after any public call.
C2_PinnedFrameKeepsPage ==
  [][\A i \in Frames : Pinned(bufDescTable[i]) => KeepsPage(i)]_vars

\* C3: a call raises BufferExceeded only from a state in which every frame
\* has pinCnt > 0.
C3_ExceededOnlyIfAllPinned ==
  [][lastCall'.exc = "BufferExceeded"
       => \A i \in Frames : bufDescTable[i].pinCnt > 0]_vars

\* C4: a readPage or allocPage call (the callers of allocBuf) leaves every
\* frame that was valid with pinCnt > 0 valid, with its page and its hash
\* entry.
C4_EvictsOnlyUnpinned ==
  [][lastCall'.op \in {"readPage", "allocPage"}
       => \A i \in Frames :
            Pinned(bufDescTable[i])
              => /\ KeepsPage(i)
                 /\ hashPresent(hashTable', bufDescTable[i].file,
                                bufDescTable[i].pageNo)]_vars

\* A page was replaced while another frame stayed pinned.
C4_Witness ==
  /\ lastCall.op \in {"readPage", "allocPage"}
  /\ lastCall.evicted /\ lastCall.exc = "none"
  /\ \E i \in Frames : i # clockHand /\ bufDescTable[i].pinCnt > 0

\* Positions of the events named ops in the event list ev.
At(ev, ops) == {k \in 1 .. Len(ev) : ev[k].op \in ops}

\* The event list r.ev of a call made in state s: when the call cleared a
\* frame that held a page, a dirty page was written (once, from that frame's
\* pool slot, to its file) before every other step of the replacement, and
\* a clean page was not written.
WriteBackFirst(s, r) ==
  \A k \in At(r.ev, {"Clear"}) :
    LET d == s.tbl[r.ev[k].frame] IN
    d.valid =>
      IF d.dirty
      THEN /\ Cardinality(At(r.ev, {"writePage"})) = 1
           /\ \A w \in At(r.ev, {"writePage"}) :
                /\ r.ev[w].file = d.file
                /\ r.ev[w].pageNo = s.pool[r.ev[k].frame]
                /\ \A o \in At(r.ev, {"hashRemove", "Clear", "readPage", "store",
                                      "hashInsert", "Set"}) : w < o
      ELSE At(r.ev, {"writePage"}) = {}

\* C5: in every readPage and allocPage call, a dirty victim of allocBuf is
\* written to its file before its hash entry is removed, before the frame
\* is cleared and before the incoming page is read or stored; a clean
\* victim is not written.
C5_WriteBackBeforeReuse ==
  \A file \in Files, pageNo \in PageIds :
    /\ WriteBackFirst(Cur, readPageCall(Cur, file, pageNo))
    /\ pageNo \notin disk[file]
         => WriteBackFirst(Cur, allocPageCall(Cur, file, pageNo))

\* A readPage or allocPage has just written a dirty victim back.
C5_Witness ==
  /\ lastCall.op \in {"readPage", "allocPage"}
  /\ lastCall.wrote /\ lastCall.evicted

\* Descriptors equal apart from the ref bits.
SameButRefbit(t1, t2) ==
  \A i \in Frames : [t1[i] EXCEPT !.refbit = FALSE] = [t2[i] EXCEPT !.refbit = FALSE]

\* C6: an allocPage that fails with BufferExceeded leaves the descriptors
\* (apart from ref bits), the hash table and the files as they were.
C6_FailedAllocPageNoEffect ==
  [][(lastCall'.op = "allocPage" /\ lastCall'.exc = "BufferExceeded")
       => /\ SameButRefbit(bufDescTable', bufDescTable)
          /\ hashTable' = hashTable
          /\ disk' = disk]_vars

\* C7: with every frame valid and pinned, readPage of a page that is not
\* resident fails with BufferExceeded, calls no File operation and changes
\* nothing but the clock hand and ref bits.
C7_ExhaustedReadNoEffect ==
  \A file \in Files, pageNo \in PageIds :
    (AllPinned /\ ~hashPresent(hashTable, file, pageNo))
      => LET r == readPageCall(Cur, file, pageNo) IN
         /\ r.exc = "BufferExceeded"
         /\ SameButRefbit(r.tbl, bufDescTable)
         /\ r.pool = bufPool
         /\ r.hash = hashTable
         /\ r.disk = disk
         /\ At(r.ev, {"readPage", "writePage", "allocatePage", "deletePage"}) = {}

\* A readPage has just failed on a pool whose frames are all pinned.
C7_Witness ==
  /\ lastCall.op = "readPage" /\ lastCall.exc = "BufferExceeded"
  /\ AllPinned

\* C8 as stated: after as many successful readPage as successful unPinPage
\* calls on a page, with calls on other pages in between, the page's pin
\* count is what it was before them (0 for a page that is not resident).
C8_PinConservation ==
  (watch.on /\ watch.reads = watch.unpins)
    => PinOf(bufDescTable, hashTable, WatchedKey[1], WatchedKey[2]) = watch.pin0

\* C8 amended: the same, counting only the unPinPage calls that found the
\* page resident (an unPinPage of a page that is not resident returns
\* silently and changes no pin count).
C8_PinConservationResident ==
  (watch.on /\ watch.reads = watch.unpins - watch.silent)
    => PinOf(bufDescTable, hashTable, WatchedKey[1], WatchedKey[2]) = watch.pin0

\* Two reads and two unpins of the watched page, the last call an unPinPage,
\* from a state in which the page was pinned.
C8_Witness ==
  /\ watch.on /\ watch.reads = MaxCalls /\ watch.unpins = MaxCalls
  /\ watch.silent = 0 /\ watch.pin0 > 0
  /\ lastCall.op = "unPinPage" /\ lastCall.exc = "none"

\* The step takes frame i away from its page by replacing it in allocBuf.
EvictedByAllocBuf(i) ==
  /\ lastCall'.op \in {"readPage", "allocPage"}
  /\ lastCall'.evicted
  /\ bufDescTable[i].pinCnt = 0

\* C9 as stated: a dirty bit is cleared only by allocBuf evicting the frame
\* or by flushFile.
C9_DirtyUntilEvictOrFlush ==
  [][\A i \in Frames :
       (bufDescTable[i].dirty /\ ~bufDescTable'[i].dirty)
         => \/ EvictedByAllocBuf(i)
            \/ lastCall'.op = "flushFile"]_vars

\* C9 amended: a dirty bit survives every readPage hit and every unPinPage;
\* it is cleared only by allocBuf evicting the frame, by flushFile, or by
\* disposePage of the frame's page.
C9_DirtyUntilEvictFlushOrDispose ==
  [][\A i \in Frames :
       (bufDescTable[i].dirty /\ ~bufDescTable'[i].dirty)
         => \/ EvictedByAllocBuf(i)
            \/ lastCall'.op = "flushFile"
            \/ lastCall'.op = "disposePage" /\ ~bufDescTable'[i].valid]_vars

\* A dirty page that was pinned again up to the limit by a readPage hit.
C9_Witness ==
  /\ lastCall.op = "readPage" /\ lastCall.exc = "none" /\ ~lastCall.evicted
  /\ \E i \in Frames : bufDescTable[i].dirty /\ bufDescTable[i].pinCnt = MaxPin

\* C10: for every frame, dirty implies valid, pinCnt > 0 implies valid,
\* pinCnt is not negative, and frameNo is the frame's index.
C10_DescriptorInvariant ==
  \A i \in Frames :
    /\ bufDescTable[i].dirty => bufDescTable[i].valid
    /\ bufDescTable[i].pinCnt > 0 => bufDescTable[i].valid
    /\ bufDescTable[i].pinCnt >= 0
    /\ bufDescTable[i].frameNo = i

\* An unPinPage has just been refused on a dirty page without pins.
C10_Witness ==
  /\ lastCall.op = "unPinPage" /\ lastCall.exc = "PageNotPinned"
  /\ \E i \in Frames : bufDescTable[i].dirty /\ bufDescTable[i].pinCnt = 0

\* The frames other than i are the same in t1 and t2.
SameOthers(t1, t2, i) == \A j \in Frames \ {i} : t1[j] = t2[j]

\* The frame i holds (file, pageNo), with its hash entry.
HoldsPage(r, i, file, pageNo) ==
  /\ i \in Frames
  /\ r.tbl[i].valid /\ r.tbl[i].file = file /\ r.tbl[i].pageNo = pageNo
  /\ r.pool[i] = pageNo
  /\ [file |-> file, pageNo |-> pageNo, frameNo |-> i] \in r.hash

\* C11: a readPage or allocPage that returns leaves the returned frame valid
\* for the requested page with refbit set and pinCnt >= 1; a hit adds exactly
\* 1 to pinCnt and changes neither dirty nor any other frame; a miss and an
\* allocPage leave pinCnt = 1 and dirty = FALSE.
C11_ReturnedFramePinned ==
  \A file \in Files, pageNo \in PageIds :
    /\ LET r == readPageCall(Cur, file, pageNo) IN
       r.exc = "none" =>
         /\ HoldsPage(r, r.frame, file, pageNo)
         /\ r.tbl[r.frame].refbit /\ r.tbl[r.frame].pinCnt >= 1
         /\ IF hashPresent(hashTable, file, pageNo)
            THEN /\ r.frame = hashLookup(hashTable, file, pageNo)
                 /\ r.tbl[r.frame].pinCnt = bufDescTable[r.frame].pinCnt + 1
                 /\ r.tbl[r.frame].dirty = bufDescTable[r.frame].dirty
                 /\ SameOthers(r.tbl, bufDescTable, r.frame)
                 /\ r.hash = hashTable /\ r.pool = bufPool
            ELSE r.tbl[r.frame].pinCnt = 1 /\ ~r.tbl[r.frame].dirty
    /\ pageNo \notin disk[file] =>
         LET r == allocPageCall(Cur, file, pageNo) IN
         r.exc = "none" =>
           /\ HoldsPage(r, r.frame, file, pageNo)
           /\ r.tbl[r.frame].refbit
           /\ r.tbl[r.frame].pinCnt = 1 /\ ~r.tbl[r.frame].dirty

\* A readPage hit has just pinned a page a second time, next to a resident
\* page whose ref bit a sweep of the clock has cleared.
C11_Witness ==
  /\ lastCall.op = "readPage" /\ lastCall.exc = "none" /\ ~lastCall.evicted
  /\ \E i \in Frames : bufDescTable[i].pinCnt = MaxPin /\ bufDescTable[i].refbit
  /\ \E i \in Frames : bufDescTable[i].valid /\ ~bufDescTable[i].refbit

\* The call result r left the manager as it is in the current state.
NothingChanged(r) ==
  /\ r.tbl = bufDescTable /\ r.pool = bufPool /\ r.hash = hashTable
  /\ r.hand = clockHand /\ r.disk = disk /\ r.ev = <<>>

\* C12: unPinPage of a resident page with pinCnt = 0 raises PageNotPinned and
\* changes nothing, whatever the dirty flag; unPinPage of a page that is not
\* in the hash table returns without exception and changes nothing.
C12_UnpinRefusedOrIgnored ==
  \A file \in Files, pageNo \in PageIds, dirty \in BOOLEAN :
    LET r == unPinPageCall(Cur, file, pageNo, dirty) IN
    /\ (hashPresent(hashTable, file, pageNo)
          /\ PinOf(bufDescTable, hashTable, file, pageNo) = 0)
         => r.exc = "PageNotPinned" /\ NothingChanged(r)
    /\ ~hashPresent(hashTable, file, pageNo)
         => r.exc = "none" /\ NothingChanged(r)

\* An unPinPage has just been refused on a clean page without pins.
C12_Witness ==
  /\ lastCall.op = "unPinPage" /\ lastCall.exc = "PageNotPinned"
  /\ \E i \in Frames :
       bufDescTable[i].valid /\ ~bufDescTable[i].dirty /\ bufDescTable[i].pinCnt = 0

\* C13: after disposePage(file, pageNo) no frame holds the page and the hash
\* table has no entry for it; the call invokes File::deletePage(pageNo) once,
\* after the removal of the hash entry, and never File::writePage.
C13_DisposeRemoves ==
  \A file \in Files, pageNo \in PageIds :
    LET r == disposePageCall(Cur, file, pageNo) IN
    /\ r.exc = "none"
    /\ ~hashPresent(r.hash, file, pageNo)
    /\ \A i \in Frames : ~(r.tbl[i].valid /\ Key(r.tbl[i]) = <<file, pageNo>>)
    /\ Cardinality(At(r.ev, {"deletePage"})) = 1
    /\ \A k \in At(r.ev, {"deletePage"}) :
         /\ r.ev[k].file = file /\ r.ev[k].pageNo = pageNo
         /\ \A h \in At(r.ev, {"hashRemove"}) : h < k
    /\ hashPresent(hashTable, file, pageNo)
         => Cardinality(At(r.ev, {"hashRemove"})) = 1
    /\ At(r.ev, {"writePage"}) = {}

\* A disposePage has just removed a resident page, and a dirty page of
\* another frame stays.
C13_Witness ==
  /\ lastCall.op = "disposePage" /\ lastCall.evicted /\ ~lastCall.wrote
  /\ \E i \in Frames : ~bufDescTable[i].valid
  /\ \E i \in Frames : bufDescTable[i].dirty

\* The manager as the call result r left it, at the start of the next call.
Again(r) == [r EXCEPT !.ev = <<>>, !.adv = 0, !.exc = "none", !.frame = -1]

\* C14: a second flushFile(file) right after the first ends as the first
\* did (same exception, at the same frame), leaves the descriptors, the
\* pool, the hash table, the clock hand and the files as the first left
\* them, writes no page and clears no frame.
C14_FlushIdempotent ==
  \A file \in Files :
    LET r1 == flushFileCall(Cur, file)
        r2 == flushFileCall(Again(r1), file)
    IN /\ r2.exc = r1.exc /\ r2.frame = r1.frame
       /\ r2.tbl = r1.tbl /\ r2.pool = r1.pool /\ r2.hash = r1.hash
       /\ r2.hand = r1.hand /\ r2.disk = r1.disk
       /\ r2.ev = <<>>

\* A flushFile has just written a page back and cleared its frame, and the
\* other frame still holds a dirty page.
C14_Witness ==
  /\ lastCall.op = "flushFile" /\ lastCall.exc = "none"
  /\ lastCall.wrote /\ lastCall.evicted
  /\ \E i \in Frames : bufDescTable[i].dirty

\* The frames that belong to file at the start of the call.
FramesOf(file) == {i \in Frames : bufDescTable[i].file = file}

\* In the event list r.ev, the page of frame i (of file) was written once,
\* from the frame's pool slot, before the frame was cleared.
WrittenOnceBeforeClear(r, file, i) ==
  LET ws == {w \in At(r.ev, {"writePage"}) :
               r.ev[w].file = file /\ r.ev[w].pageNo = bufDescTable[i].pageNo}
  IN /\ Cardinality(ws) = 1
     /\ bufPool[i] = bufDescTable[i].pageNo
     /\ \A w \in ws : \A c \in At(r.ev, {"Clear"}) : r.ev[c].frame = i => w < c

\* In the event list r.ev, the page of frame i (of file) was not written.
NotWritten(r, file, i) ==
  \A w \in At(r.ev, {"writePage"}) :
    ~(r.ev[w].file = file /\ r.ev[w].pageNo = bufDescTable[i].pageNo)

\* The call result r left frame i and its hash entry as they were.
FrameUntouched(r, i) ==
  /\ r.tbl[i] = bufDescTable[i] /\ r.pool[i] = bufPool[i]
  /\ {e \in r.hash : e.frameNo = i} = {e \in hashTable : e.frameNo = i}
  /\ \A k \in At(r.ev, {"Clear"}) : r.ev[k].frame # i

\* The call result r flushed frame i of file: written back exactly when it
\* was dirty, its hash entry removed, the frame cleared.
FrameFlushed(r, file, i) ==
  /\ IF bufDescTable[i].dirty
     THEN WrittenOnceBeforeClear(r, file, i)
     ELSE NotWritten(r, file, i)
  /\ r.tbl[i] = Clear(bufDescTable[i])
  /\ ~hashPresent(r.hash, file, bufDescTable[i].pageNo)
  /\ {e \in r.hash : e.frameNo = i} = {}

\* C15: a flushFile(file) that ends without exception has written each dirty
\* frame of the file once, before clearing it, has written no clean frame and
\* no page of another file, leaves no frame and no hash entry of the file,
\* and leaves the frames and entries of the other files and the clock hand
\* as they were.
C15_FlushWritesAndClears ==
  \A file \in Files :
    LET r == flushFileCall(Cur, file) IN
    r.exc = "none" =>
      /\ \A i \in FramesOf(file) : FrameFlushed(r, file, i)
      /\ \A w \in At(r.ev, {"writePage"}) : r.ev[w].file = file
      /\ \A i \in Frames : r.tbl[i].file # file
      /\ \A e \in r.hash : e.file # file
      /\ \A i \in Frames \ FramesOf(file) : FrameUntouched(r, i)
      /\ {e \in r.hash : e.file # file} = {e \in hashTable : e.file # file}
      /\ r.hand = clockHand /\ r.disk = disk

\* A flushFile has just written a page back, and a dirty page of another
\* file stays resident.
C15_Witness ==
  /\ lastCall.op = "flushFile" /\ lastCall.exc = "none" /\ lastCall.wrote
  /\ \E i \in Frames : bufDescTable[i].valid /\ bufDescTable[i].dirty
  /\ \E i \in Frames : ~bufDescTable[i].valid /\ bufPool[i] # INVALID_NUMBER

\* The pinned frames of file at the start of the call.
PinnedOf(file) == {i \in FramesOf(file) : bufDescTable[i].pinCnt > 0}

\* C16: flushFile(file) raises PagePinned whenever a frame of the file has
\* pinCnt > 0, at the pinned frame of the file with the lowest index; the
\* frames of the file below that index are flushed (written back if dirty,
\* entry removed, cleared); the pinned frame and the frames above it, and
\* the frames of other files, are as they were.
C16_FlushStopsAtPinned ==
  \A file \in Files :
    PinnedOf(file) # {} =>
      LET r == flushFileCall(Cur, file)
          p == CHOOSE i \in PinnedOf(file) : \A j \in PinnedOf(file) : i <= j
      IN /\ r.exc = "PagePinned" /\ r.frame = p
         /\ \A i \in FramesOf(file) : i < p => FrameFlushed(r, file, i)
         /\ \A i \in Frames : (i >= p \/ i \notin FramesOf(file)) => FrameUntouched(r, i)

\* A flushFile has just stopped at a pinned frame after it flushed a dirty
\* frame of the same file.
C16_Witness ==
  /\ lastCall.op = "flushFile" /\ lastCall.exc = "PagePinned"
  /\ lastCall.evicted /\ lastCall.wrote

\* The frame the clock hand is on after k advances from the current state.
FrameAt(k) == (clockHand + k) % NumBufs

\* The frame reached after k advances can be taken: it is invalid, or its
\* ref bit is clear at that moment (it was clear, or the hand has cleared it
\* on its first pass) and it is not pinned.
Takeable(k) ==
  LET d == bufDescTable[FrameAt(k)] IN
  \/ ~d.valid
  \/ (k > NumBufs \/ ~d.refbit) /\ d.pinCnt = 0

\* The frames the hand passed before its k-th advance.
Passed(k) == {FrameAt(j) : j \in 1 .. (k - 1)}

\* C17: a successful allocBuf returns the first frame the hand reaches from
\* clockHand + 1 on that is invalid, or valid with refbit clear and
\* pinCnt = 0 when reached; the hand ends on it; the other frames keep
\* everything but the ref bit, which is cleared on the frames passed and kept
\* elsewhere.  With every frame valid, clean, unpinned and refbit set the
\* victim is the frame at clockHand + 1, taken after one full sweep, and no
\* page is written.
C17_ClockVictim ==
  LET a == allocBuf(Cur) IN
  /\ a.exc = "none" =>
       /\ a.adv \in 1 .. (2 * NumBufs)
       /\ Takeable(a.adv)
       /\ \A k \in 1 .. (a.adv - 1) : ~Takeable(k)
       /\ a.frame = FrameAt(a.adv) /\ a.hand = a.frame
       /\ a.tbl[a.frame] = Clear(bufDescTable[a.frame])
       /\ \A i \in Frames \ {a.frame} :
            /\ a.tbl[i] = IF i \in Passed(a.adv)
                          THEN [bufDescTable[i] EXCEPT !.refbit = FALSE]
                          ELSE bufDescTable[i]
            /\ {e \in a.hash : e.frameNo = i} = {e \in hashTable : e.frameNo = i}
       /\ a.pool = bufPool
  /\ (\A i \in Frames : LET d == bufDescTable[i] IN
                        d.valid /\ d.refbit /\ d.pinCnt = 0 /\ ~d.dirty)
       => /\ a.exc = "none"
          /\ a.frame = (clockHand + 1) % NumBufs
          /\ a.adv = NumBufs + 1
          /\ At(a.ev, {"writePage"}) = {}

\* A readPage or allocPage has just replaced a clean page after a sweep: the
\* other frames are valid and unpinned with their ref bits cleared.
C17_Witness ==
  /\ lastCall.op \in {"readPage", "allocPage"} /\ lastCall.exc = "none"
  /\ lastCall.evicted /\ ~lastCall.wrote
  /\ \A i \in Frames \ {clockHand} :
       LET d == bufDescTable[i] IN d.valid /\ ~d.refbit /\ d.pinCnt = 0 /\ ~d.dirty

\* C18: from every reachable state allocBuf ends, with a frame or with
\* BufferExceeded, after at most 2 * NumBufs advances of the clock hand; so
\* do the readPage and allocPage calls that use it.
C18_AllocBufBounded ==
  /\ LET a == allocBuf(Cur) IN
     /\ a.exc \in {"none", "BufferExceeded"}
     /\ a.adv \in 1 .. (2 * NumBufs)
  /\ \A file \in Files, pageNo \in PageIds :
       /\ readPageCall(Cur, file, pageNo).adv <= 2 * NumBufs
       /\ pageNo \notin disk[file]
            => allocPageCall(Cur, file, pageNo).adv <= 2 * NumBufs

\* An allocPage has just failed after the hand cleared every ref bit and
\* then saw every frame pinned.
C18_Witness ==
  /\ lastCall.op = "allocPage" /\ lastCall.exc = "BufferExceeded"
  /\ \A i \in Frames : Pinned(bufDescTable[i]) /\ ~bufDescTable[i].refbit

\* C19: no frame has a file while it is invalid, and flushFile raises
\* BadBuffer for no file.
C19_NoBadBuffer ==
  /\ \A i \in Frames : ~bufDescTable[i].valid => bufDescTable[i].file = NULL
  /\ \A file \in Files : flushFileCall(Cur, file).exc # "BadBuffer"

\* A flushFile has just cleared a clean frame, which still has the flushed
\* page in its pool slot.
C19_Witness ==
  /\ lastCall.op = "flushFile" /\ lastCall.exc = "none"
  /\ lastCall.evicted /\ ~lastCall.wrote
  /\ \E i \in Frames : ~bufDescTable[i].valid /\ bufPool[i] # INVALID_NUMBER

\* The hash table h indexes exactly the valid frames of tbl, each under its
\* own page, and no two valid frames hold the same page.
ValidIffIndexed(tbl, h) ==
  /\ \A i \in Frames :
       tbl[i].valid <=>
         [file |-> tbl[i].file, pageNo |-> tbl[i].pageNo, frameNo |-> i] \in h
  /\ \A e \in h : tbl[e.frameNo].valid /\ Key(tbl[e.frameNo]) = <<e.file, e.pageNo>>
  /\ \A i, j \in Frames :
       (i # j /\ tbl[i].valid /\ tbl[j].valid) => Key(tbl[i]) # Key(tbl[j])

\* C20: when File::readPage fails in a readPage miss, the call ends with the
\* file's exception; the requested page is not resident and not pinned; the
\* frame allocBuf chose is invalid and has no hash entry; valid-iff-indexed
\* holds; the page that frame held has been evicted: written back if it was
\* dirty, removed from the hash table.
C20_FailedReadLeavesFrameFree ==
  \A file \in Files, pageNo \in PageIds :
    LET a == allocBuf(Cur)
        r == readPageCall(Cur, file, pageNo)
    IN (~hashPresent(hashTable, file, pageNo) /\ pageNo \notin disk[file]
          /\ a.exc = "none")
         => LET old == bufDescTable[a.frame] IN
            /\ r.exc = "InvalidPage"
            /\ ~hashPresent(r.hash, file, pageNo)
            /\ PinOf(r.tbl, r.hash, file, pageNo) = 0
            /\ \A i \in Frames : ~(r.tbl[i].valid /\ Key(r.tbl[i]) = <<file, pageNo>>)
            /\ r.frame = a.frame
            /\ ~r.tbl[a.frame].valid
            /\ {e \in r.hash : e.frameNo = a.frame} = {}
            /\ ValidIffIndexed(r.tbl, r.hash)
            /\ At(r.ev, {"hashInsert", "Set", "store"}) = {}
            /\ old.valid =>
                 /\ ~hashPresent(r.hash, old.file, old.pageNo)
                 /\ IF old.dirty
                    THEN \E w \in At(r.ev, {"writePage"}) :
                           /\ r.ev[w].file = old.file /\ r.ev[w].pageNo = old.pageNo
                           /\ \A k \in At(r.ev, {"readPage"}) : w < k
                    ELSE At(r.ev, {"writePage"}) = {}

\* A readPage has just failed in the file after allocBuf wrote a dirty page
\* back and evicted it.
C20_Witness ==
  /\ lastCall.op = "readPage" /\ lastCall.exc = "InvalidPage"
  /\ lastCall.evicted /\ lastCall.wrote
  /\ \E i \in Frames : ~bufDescTable[i].valid /\ bufPool[i] # INVALID_NUMBER
====
